---------------------------- MODULE Spec2Model ----------------------------
(***************************************************************************)
(* tower-breaker: a circuit breaker (src/src/service.rs) in front of an    *)
(* inner tower Service, the Policy it consults (src/src/policy.rs,         *)
(* src/src/policy/failure_rate.rs) and the rolling WindowedCounter         *)
(* (src/src/window_counter.rs).                                            *)
(*                                                                         *)
(* Several state machines share this module, each with its own            *)
(* specifications:                                                         *)
(*   SpecBreaker, SpecBreakerRace                                          *)
(*                CircuitBreaker::poll_ready / call and ResponseFuture     *)
(*                as the clock and the runtime's timer advance             *)
(*   SpecResponses                                                         *)
(*                the same operations at one instant, with every request   *)
(*                dispatched, polled, polled again and dropped             *)
(*   SpecPolicy, SpecPolicyWide, SpecPolicyRead, SpecPolicyExpiry          *)
(*                the threads of SlidingFailureRate's Inner                *)
(*   SpecNew      SlidingFailureRate::new                                  *)
(*   SpecCounter, SpecCounterWide                                          *)
(*                WindowedCounter                                          *)
(*   SpecRatio    the ratio form of the policy over two WindowedCounters   *)
(* Time is counted in whole clock ticks: TicksPerMs to the millisecond for *)
(* the breaker, 100 ms for the policy, one millisecond for the counter.     *)
(***************************************************************************)
EXTENDS Integers, Sequences, FiniteSets, TLC

(***************************************************************************)
(* Bounds of the model.                                                    *)
(***************************************************************************)
\* the breaker's clock runs from 0 to MaxTime
MaxTime == 2
\* trip_for is drawn from 0..MaxTripFor ticks, and Duration::MAX
MaxTripFor == 1
\* ticks of the breaker's clock in one millisecond, the granularity of the
\* runtime's timer
TicksPerMs == 2
\* requests dispatched through the breaker
MaxReq == 2
\* polls of response futures that have already completed, in one run
MaxRepolls == 1
\* the policy's clock runs from 0 to MaxPTime
MaxPTime == 3
\* threads sharing one SlidingFailureRate
MaxThreads == 2
\* outcomes recorded on the policy in one run
MaxRecords == 3
\* the duration of one window slot (Inner.window) is drawn from 1..MaxSlot
MaxSlot == 2

\* the counter's window is drawn from 0..MaxWindow milliseconds
MaxWindow == 16
\* add() calls in one run
MaxAdds == 2
\* the integer types (i64 of the counter, isize of the policy) are modelled
\* IntBits wide, two's complement
IntBits == 16

\* const NUM_WINDOWS: usize = 10
NUM_WINDOWS == 10
\* const NUM_BUCKETS: usize = 8
NUM_BUCKETS == 8

VARIABLES
  \* ---- CircuitBreaker<P, S> and its environment
  policy_kind,       \* which P: "SlidingFailureRate" or another implementor
  trip_for,          \* config.trip_for
  clock,             \* Instant::now()
  tripped,           \* CircuitBreaker.tripped
  tripped_until,     \* deadline of CircuitBreaker.tripped_until (a Sleep)
  panicked,          \* "no", or the panic that ended the program
  req,               \* per request: its ResponseFuture's life cycle
  raw,               \* per request: what the inner future returned
  out,               \* per request: what ResponseFuture::poll returned
  p_succ,            \* policy: successes recorded since the last reset
  p_fail,            \* policy: failures recorded since the last reset
  rec_s,             \* per request: record_success calls it caused
  rec_f,             \* per request: record_failure calls it caused
  chk,               \* what the most recent poll_ready did
  ready,             \* the last poll_ready returned Ready and no call followed
  debug_assertions,  \* the build's debug-assertions setting (on in debug builds)
  waiter,            \* the caller of the last poll_ready: suspended or not
  \* ---- history of the run, read by the properties only
  again,             \* per request: polls of its future after it had completed
  seen_ok,           \* per request: polls on which the inner future gave Ready(Ok)
  seen_err,          \* per request: polls on which the inner future gave Ready(Err)
  last_trip,         \* time of the latest check that observed is_punished() = true, -1 before it
  since_trip_s,      \* successes recorded since the latest trip
  since_trip_f,      \* failures recorded since the latest trip
  timer_elapsed,     \* the runtime's timer driver: the millisecond it has processed up to
  mid,               \* <<>>, or the poll_ready under way: what its is_punished() read
  erased,            \* outcomes recorded after that read and cleared by its reset()
  \* ---- SlidingFailureRate's Inner, shared by the threads
  inner_cfg,         \* Inner's immutable fields: window, success_value, failure_value
  p_now,             \* Instant::now()
  gen,               \* current_gen: [index, epoch], guarded by the mutex
  windows,           \* Inner.windows, slots 0..NUM_WINDOWS-1
  current,           \* Inner.current
  pc,                \* per thread: where it stands
  loc,               \* per thread: the locals of expire (now, delta, to_commit, i)
  \* ---- history of the run, read by the properties only
  n_succ,            \* record_success calls that added their weight
  n_fail,            \* record_failure calls
  advanced,          \* slots the generation index has moved in total
  last_rot,          \* the `now` of the latest rotation, -1 before it
  dup_rot,           \* two rotations were made for the same `now`
  last_rec,          \* time of the latest record_success / record_failure, -1 before it
  \* ---- WindowedCounter
  wc_window,         \* the window WindowedCounter::new was given, in milliseconds
  bucket_ms,         \* WindowedCounter.bucket_ms
  wc_elapsed,        \* Instant::now() - WindowedCounter.epoch, in milliseconds
  buckets,           \* WindowedCounter.buckets, slots 0..NUM_BUCKETS-1
  bucket,            \* WindowedCounter.bucket, the active index
  wc_panicked,       \* a call on the counter panicked
  overflow_checks,   \* the build's overflow-checks setting (on in debug builds)
  \* ---- history of the run, read by the properties only
  wc_last,           \* what the latest add/total/clear did, until the clock moves on
  age,               \* time since creation or the latest clear, up to one bucket duration
  asum,              \* sum of the amounts added since creation or the latest clear
  since_add,         \* time since the latest add, -1 if none since creation or clear
  adds_done,         \* number of add() calls
  \* ---- a call of SlidingFailureRate::new
  new_args,          \* its arguments: window, allowed_per_sec, failure_percent
  new_out,           \* <<>> before the call, then what the call gave
  \* ---- the caller that reads the policy (the breaker's side of it)
  rd,                \* where it stands in Inner::sum, and sum's locals
  rd_out,            \* <<>>, or what the latest completed sum() returned
  \* ---- the ratio form of the policy: `requests` is the counter above,
  \* ---- `failures` a second WindowedCounter over the same window
  f_buckets,         \* failures.buckets
  f_bucket,          \* failures.bucket
  f_elapsed,         \* Instant::now() - failures.epoch, in milliseconds
  max_rate,          \* the policy's max_rate, a fraction
  ratio_out          \* <<>>, or what the latest is_punished() read and returned

bvars == <<policy_kind, trip_for, clock, tripped,
           tripped_until, panicked, req, raw, out, p_succ, p_fail, rec_s, rec_f, chk, ready, waiter, 
           last_trip, since_trip_s, since_trip_f, mid, erased,
           timer_elapsed, debug_assertions, again, seen_ok,
           seen_err>>

\* the build setting and the history of call() and ResponseFuture::poll
hvars == <<debug_assertions, again, seen_ok, seen_err>>

pvars == <<inner_cfg, p_now, gen, windows, current, pc, loc, n_succ, n_fail,
           advanced, last_rot, dup_rot, last_rec>>

cvars == <<wc_window, bucket_ms, wc_elapsed, buckets, bucket, wc_panicked,
           overflow_checks, wc_last, age, asum, since_add, adds_done>>

\* the state the three machines above leave alone
xvars == <<new_args, new_out, rd, rd_out, f_buckets, f_bucket, f_elapsed,
           max_rate, ratio_out>>

vars == <<bvars, pvars, cvars, xvars>>

Reqs == 1..MaxReq

\* Result<T, E> of the inner future
Results == {<<"Ok", "a">>, <<"Ok", "b">>, <<"Err", "x">>}

\* Poll<Result<T, E>> of the inner future
InnerPolls == {<<"Pending">>} \cup {<<"Ready", r>> : r \in Results}

\* Poll<Result<(), E>> of inner.poll_ready
InnerReadiness == {"Pending", "ReadyOk", "ReadyErr"}

Threads == 1..MaxThreads

\* i64::MAX and i64::MIN (isize::MAX and isize::MIN) at the modelled width
IntMax == 2 ^ (IntBits - 1) - 1
IntMin == -(2 ^ (IntBits - 1))

\* x is a value of the integer type
InInt(x) == IntMin <= x /\ x <= IntMax

\* x reduced to the integer type by two's complement wrap-around
WrapInt(x) == ((x - IntMin) % (2 ^ IntBits)) + IntMin

\* x clamped to the integer type (saturating arithmetic)
SaturateInt(x) == IF x > IntMax THEN IntMax ELSE IF x < IntMin THEN IntMin ELSE x

\* const MAX_RETRY_PERCENT: f32 = 1000.0
MAX_RETRY_PERCENT == 1000

(***************************************************************************)
(* Integers at their width in the source.  The integers of the model       *)
(* checker end at 2^31 - 1, so a u32 or a non-negative isize of            *)
(* SlidingFailureRate::new is written as its five groups of four decimal   *)
(* digits, least significant first: 39294 is <<9294, 3, 0, 0, 0>>.         *)
(***************************************************************************)
Base == 10000
BigLimbs == 5

\* an integer of the model checker, 0 or more, as such a number
Big(n) ==
  [i \in 1..BigLimbs |->
     IF i = 1 THEN n % Base
     ELSE IF i = 2 THEN (n \div Base) % Base
     ELSE IF i = 3 THEN n \div (Base * Base)
     ELSE 0]

\* isize::MAX = 9223372036854775807 (usize is 64 bits wide)
ISIZE_MAX == <<5807, 5477, 368, 3372, 922>>

\* i32::MAX as u32 = 2147483647
I32_MAX == <<3647, 4748, 21, 0, 0>>

\* a < b
RECURSIVE BigLessFrom(_, _, _)
BigLessFrom(a, b, i) ==
  IF i = 0 THEN FALSE
  ELSE IF a[i] # b[i] THEN a[i] < b[i]
  ELSE BigLessFrom(a, b, i - 1)

BigLess(a, b) == BigLessFrom(a, b, BigLimbs)

\* the number back as an integer of the model checker, when it is one
RECURSIVE BigToIntFrom(_, _)
BigToIntFrom(a, i) ==
  IF i > BigLimbs THEN 0 ELSE a[i] + Base * BigToIntFrom(a, i + 1)

BigToInt(a) == BigToIntFrom(a, 1)

\* the digit groups of a * b before the carries: group k of the product
RECURSIVE ProductGroup(_, _, _, _)
ProductGroup(a, b, k, i) ==
  IF i = 0 THEN 0
  ELSE (IF k + 1 - i >= 1 /\ k + 1 - i <= BigLimbs
        THEN a[i] * b[k + 1 - i] ELSE 0)
       + ProductGroup(a, b, k, i - 1)

\* the carries of a * b, group by group from the least significant: the
\* groups of the product, 2 * BigLimbs of them
RECURSIVE ProductDigits(_, _, _, _)
ProductDigits(a, b, k, carry) ==
  IF k > 2 * BigLimbs THEN <<>>
  ELSE LET g == ProductGroup(a, b, k, BigLimbs) + carry
       IN  <<g % Base>> \o ProductDigits(a, b, k + 1, g \div Base)

\* isize::saturating_mul on two values that are 0 or more
SaturatingMul(a, b) ==
  LET p   == ProductDigits(a, b, 1, 0)
      low == [i \in 1..BigLimbs |-> p[i]]
  IN  IF (\E i \in (BigLimbs + 1)..(2 * BigLimbs) : p[i] # 0)
         \/ BigLess(ISIZE_MAX, low)
      THEN ISIZE_MAX
      ELSE low

\* 2^x as such a number, for x up to 60
BigPow2(x) ==
  IF x <= 30 THEN Big(2 ^ x)
  ELSE SaturatingMul(Big(2 ^ 30), Big(2 ^ (x - 30)))

(***************************************************************************)
(* SlidingFailureRate::new.  A Duration is a whole number of milliseconds. *)
(* An f32 is the record of its kind ("finite", "inf", "nan"), its sign and, *)
(* when finite, its value m * 2^e: m is below 2^24 and at least 2^23       *)
(* unless the value is zero (m = 0, e = 0) or subnormal (e = -149).        *)
(***************************************************************************)

\* the finite f32 m * 2^e, positive
F32(m, e) == [kind |-> "finite", neg |-> FALSE, m |-> m, e |-> e]

F32NaN == [kind |-> "nan", neg |-> FALSE, m |-> 0, e |-> 0]
F32Inf == [kind |-> "inf", neg |-> FALSE, m |-> 0, e |-> 0]

\* -x
F32Neg(x) == [x EXCEPT !.neg = ~x.neg]

\* the quotient n / d of two positive integers rounded to 24 significant
\* bits, to nearest and to even on a tie, as IEEE 754 division rounds:
\* <<m, e>> with the quotient rounded being m * 2^e.  acc holds the bits
\* found so far, r the remainder, e the weight of the last bit found.
RECURSIVE RoundedBits(_, _, _, _)
RoundedBits(acc, r, d, e) ==
  IF acc < 8388608
  THEN LET bit == IF 2 * r >= d THEN 1 ELSE 0
       IN  RoundedBits(2 * acc + bit, 2 * r - bit * d, d, e - 1)
  ELSE LET guard  == 2 * r >= d
           sticky == (IF guard THEN 2 * r - d ELSE 2 * r) > 0
           up     == guard /\ (sticky \/ acc % 2 = 1)
       IN  IF ~up THEN <<acc, e>>
           ELSE IF acc + 1 = 16777216 THEN <<8388608, e + 1>>
           ELSE <<acc + 1, e>>

RoundedQuotient(n, d) == RoundedBits(n \div d, n % d, d, 0)

\* the f32 nearest to the decimal fraction num / den (num >= 0, den > 0,
\* num / den below 2^23): what a literal of that value is
ToF32(num, den) ==
  IF num = 0 THEN F32(0, 0)
  ELSE LET q == RoundedQuotient(num, den) IN F32(q[1], q[2])

\* n / x in f32 for n = 1.0 or 1000.0 and a finite x above zero
F32Div(n, x) ==
  LET q == RoundedQuotient(n, x.m)
      e == q[2] - x.e
  IN  IF e > 104 THEN F32Inf ELSE F32(q[1], e)

\* x as isize for an f32 that is 0 or more: the fraction is dropped, and
\* what is beyond isize::MAX becomes isize::MAX
F32AsIsize(x) ==
  IF x.kind = "nan" THEN Big(0)
  ELSE IF x.kind = "inf" THEN ISIZE_MAX
  ELSE IF x.m = 0 THEN Big(0)
  ELSE IF x.e >= 40 THEN ISIZE_MAX
  ELSE IF x.e >= 0 THEN SaturatingMul(Big(x.m), BigPow2(x.e))
  ELSE IF x.e < -24 THEN Big(0)
  ELSE Big(x.m \div (2 ^ (-x.e)))

\* x < c and x <= c for an f32 x and an integer c that is 0 or more: false
\* when x is NaN
F32LessInt(x, c) ==
  /\ x.kind # "nan"
  /\ \/ x.neg /\ (x.kind = "inf" \/ x.m > 0 \/ c > 0)
     \/ /\ ~x.neg /\ x.kind = "finite"
        /\ IF x.e >= 0
           THEN IF x.e > 30 THEN x.m = 0 /\ c > 0
                ELSE x.m < (c + 2 ^ x.e - 1) \div (2 ^ x.e)
           ELSE IF x.e < -30 THEN c > 0
                ELSE x.m \div (2 ^ (-x.e)) < c

F32LessEqInt(x, c) ==
  /\ x.kind # "nan"
  /\ \/ x.neg
     \/ /\ ~x.neg /\ x.kind = "finite"
        /\ IF x.e >= 0
           THEN IF x.e > 30 THEN x.m = 0
                ELSE x.m <= c \div (2 ^ x.e)
           ELSE IF x.e < -30 THEN c > 0 \/ x.m = 0
                ELSE (x.m + 2 ^ (-x.e) - 1) \div (2 ^ (-x.e)) <= c

\* 0.0 <= x: true of -0.0, false of NaN
F32ZeroLessEq(x) ==
  /\ x.kind # "nan"
  /\ ~x.neg \/ (x.kind = "finite" /\ x.m = 0)

\* x == 0.0: true of -0.0
F32IsZero(x) == x.kind = "finite" /\ x.m = 0

\* (Duration::from_secs(1)..Duration::from_secs(60)).contains(&window)
WindowInRange(window) == 1000 <= window /\ window < 60000

\* (0.0..MAX_RETRY_PERCENT).contains(&failure_percent)
PercentInRange(failure_percent) ==
  /\ F32ZeroLessEq(failure_percent)
  /\ F32LessInt(failure_percent, MAX_RETRY_PERCENT)

\* allowed_per_sec < i32::MAX as u32
AllowedInRange(allowed_per_sec) == BigLess(allowed_per_sec, I32_MAX)

\* the three assert!s of new
NewAccepts(window, allowed_per_sec, failure_percent) ==
  /\ WindowInRange(window)
  /\ PercentInRange(failure_percent)
  /\ AllowedInRange(allowed_per_sec)

\* let (success_value, failure_value) = match failure_percent { ... }
Weights(failure_percent) ==
  IF F32IsZero(failure_percent) THEN <<Big(0), Big(1)>>
  ELSE IF F32LessEqInt(failure_percent, 1)
  THEN <<Big(1), F32AsIsize(F32Div(1, failure_percent))>>
  ELSE <<Big(1000), F32AsIsize(F32Div(MAX_RETRY_PERCENT, failure_percent))>>

\* (allowed_per_sec as isize).saturating_mul(window.as_secs() as isize)
\*   .saturating_mul(failure_value)
Allowable(window, allowed_per_sec, failure_value) ==
  SaturatingMul(SaturatingMul(allowed_per_sec, Big(window \div 1000)),
                failure_value)

\* SlidingFailureRate::new: a panic, or Inner's immutable fields.
\* Inner.window (window / NUM_WINDOWS) is in microseconds.
New(window, allowed_per_sec, failure_percent) ==
  IF ~NewAccepts(window, allowed_per_sec, failure_percent)
  THEN [panicked |-> TRUE, window |-> 0, success_value |-> Big(0),
        failure_value |-> Big(0), allowable |-> Big(0)]
  ELSE LET w == Weights(failure_percent)
       IN  [panicked |-> FALSE,
            window |-> (window * 1000) \div NUM_WINDOWS,
            success_value |-> w[1],
            failure_value |-> w[2],
            allowable |-> Allowable(window, allowed_per_sec, w[2])]

(***************************************************************************)
(* The Inner the machines below run on.  Their clock ticks every 100 ms    *)
(* and their windows are whole ticks; their isize is IntBits wide, with    *)
(* IntMax standing for isize::MAX.                                         *)
(***************************************************************************)

\* microseconds in one tick of the policy's clock
TickMicros == 100000

\* a value of new as the machines' isize
Narrow(a) == IF a = ISIZE_MAX THEN IntMax ELSE BigToInt(a)

\* the Inner new built, in the machines' units
MachineInner(built) ==
  [panicked |-> built.panicked,
   window |-> built.window \div TickMicros,
   success_value |-> Narrow(built.success_value),
   failure_value |-> Narrow(built.failure_value),
   allowable |-> Narrow(built.allowable)]

\* the policies of the runs: windows of whole seconds, failure_percent 0.0
\* with no failure allowed per second and 0.5 with one
Configs ==
  {MachineInner(New(1000 * s, a[1], a[2])) :
     s \in 1..MaxSlot, a \in {<<Big(0), ToF32(0, 1)>>, <<Big(1), ToF32(1, 2)>>}}

DefaultConfig == MachineInner(New(1000, Big(1), ToF32(1, 2)))

\* the policies that are read: a window of 1 s, with and without a baseline
ReadConfigs == {MachineInner(New(1000, Big(0), ToF32(0, 1))),
                MachineInner(New(1000, Big(1), ToF32(1, 2)))}

\* policies whose weights are at the ends of isize: a failure_percent so
\* small (2^-100) that 1.0 / failure_percent is beyond isize::MAX, and one
\* above 1.0
WideConfigs == {MachineInner(New(1000, Big(0), F32(8388608, -123))),
                MachineInner(New(1000, Big(1), ToF32(3, 1)))}

\* the arguments new is tried on: windows around 1 s and 60 s, rates around
\* i32::MAX, percentages around 0, 1 and 1000
NewArgs ==
  {[window |-> w, allowed_per_sec |-> a, failure_percent |-> p] :
     w \in {999, 1000, 1001, 1500, 59999, 60000, 60001},
     a \in {Big(0), Big(1), Big(2), Big(2147483646), I32_MAX,
            <<3648, 4748, 21, 0, 0>>, <<7295, 9496, 42, 0, 0>>},
     p \in {F32NaN, F32Inf, F32Neg(ToF32(1, 1000)), F32Neg(ToF32(0, 1)),
            ToF32(0, 1), F32(1, -149), F32(8388608, -123), ToF32(1, 10),
            ToF32(1, 7), ToF32(1, 3), ToF32(1, 1), F32(8388609, -23),
            ToF32(3, 1), ToF32(999999, 1000), ToF32(1000, 1),
            ToF32(1000001, 1000)}}

DefaultArgs == [window |-> 1000, allowed_per_sec |-> Big(1),
                failure_percent |-> ToF32(1, 2)]

\* the locals of Inner::expire
NoLocals == [now |-> 0, delta |-> 0, to_commit |-> 0, i |-> 0]

\* (window / NUM_BUCKETS as u32).as_millis(), the window in milliseconds
BucketMs(window) == window \div NUM_BUCKETS

\* the reader outside Inner::sum
NoRead == [pc |-> "idle", cur |-> 0, acc |-> 0, k |-> 0, seen |-> {},
           start |-> 0, recs |-> 0]

\* what a call on the counter did; nothing yet
NoCounterOp == [op |-> "none", amount |-> 0, result |-> 0, jumped |-> FALSE,
                early |-> FALSE, decayed |-> FALSE, from |-> 0]

NoCheck == [t |-> -1, punished |-> FALSE, result |-> "none",
            consulted |-> FALSE, inner |-> "none", resets |-> 0,
            due |-> FALSE, was_tripped |-> FALSE]

(***************************************************************************)
(* CircuitBreaker::poll_ready, piece by piece.                             *)
(***************************************************************************)

\* Policy::is_punished as the breaker sees it.  SlidingFailureRate's is
\* todo!(): it never returns.  Any other implementor returns a bool, of its
\* own choosing.
IsPunishedOutcomes ==
  IF policy_kind = "SlidingFailureRate" THEN {"panic"}
  ELSE {"true", "false"}

\* the latest Instant there is and Duration::MAX, in ticks of the clock:
\* Duration::MAX added to any instant of a run is past the latest Instant
InstantMax == 2 ^ 20
DurationMax == 2 ^ 21

\* config.trip_for: any Duration, Duration::ZERO and Duration::MAX included
TripFors == (0..MaxTripFor) \cup {DurationMax}

\* no Instant: what Instant::checked_add gives on overflow
Overflow == -1

\* Instant::now() + self.config.trip_for: the deadline, or Overflow where
\* the `+` panics ("overflow when adding duration to instant")
TripDeadline(now, d) == IF now + d > InstantMax THEN Overflow ELSE now + d

\* tokio's Instant::far_future(), 30 years from now
FarFuture == InstantMax

\* the deadline of time::sleep(duration): now + duration, or the far
\* future where that overflows
SleepDeadline(now, d) ==
  IF TripDeadline(now, d) = Overflow THEN FarFuture ELSE TripDeadline(now, d)

\* the millisecond an instant lies in, as the timer driver reads the clock
MsFloor(t) == t \div TicksPerMs

\* the timer tick of a deadline: the deadline rounded up to a whole
\* millisecond
DeadlineTick(deadline) == (deadline + TicksPerMs - 1) \div TicksPerMs

\* what is left of the cooperative budget of the task that polls: the
\* task has polled ready resources of the runtime since it last yielded,
\* and either may still do so or has used its budget up
CoopBudget == {"left", "used_up"}

\* tokio Sleep polled: Pending when the polling task has used up its
\* budget; otherwise Ready once the timer driver has processed the tick of
\* the deadline, Pending until then, whatever the clock says
SleepPoll(coop, elapsed, deadline) ==
  IF coop = "used_up" THEN "Pending"
  ELSE IF DeadlineTick(deadline) <= elapsed THEN "Ready" ELSE "Pending"

\* self.tripped after the `if is_punished()` block
TrippedAfterVerdict(punished) == IF punished THEN TRUE ELSE tripped

\* the `+` of line 66 panics: poll_ready ends there, after self.tripped =
\* true and policy.reset(), with the Sleep as it was
DeadlineOverflows(punished) ==
  punished /\ TripDeadline(clock, trip_for) = Overflow

\* tripped_until after the `if is_punished()` block
UntilAfterVerdict(punished) ==
  IF punished /\ ~DeadlineOverflows(punished)
  THEN TripDeadline(clock, trip_for) ELSE tripped_until

\* a count of the policy's history after the `if is_punished()` block:
\* policy.reset() clears it on a trip
PolicyAfterVerdict(punished, n) == IF punished THEN 0 ELSE n

Mut_TrippedAfterSleep(t, sleep) == t
\* `if self.tripped { match tripped_until.poll(cx) { Ready => tripped = false`
TrippedAfterSleep(t, sleep) == IF t /\ sleep = "Ready" THEN FALSE ELSE t

\* whether poll_ready returns Poll::Pending from the `if self.tripped` block
RefusedBySleep(t, sleep) == t /\ sleep = "Pending"

\* poll_ready from the `if` on: what it does with the verdict it read
PollReadyAfterVerdict(punished, innerAns, coop) ==
  LET t1       == TrippedAfterVerdict(punished)
      until1   == UntilAfterVerdict(punished)
      sleep    == SleepPoll(coop, timer_elapsed, until1)
      refused  == RefusedBySleep(t1, sleep)
      result   == IF refused THEN "Pending" ELSE innerAns
      panics   == DeadlineOverflows(punished)
  IN  /\ UNCHANGED <<clock, req, raw, out, rec_s, rec_f, policy_kind,
                     trip_for>>
      /\ panicked' = IF panics THEN "overflow" ELSE panicked
      /\ tripped' = IF panics THEN t1 ELSE TrippedAfterSleep(t1, sleep)
      /\ tripped_until' = until1
      /\ p_succ' = PolicyAfterVerdict(punished, p_succ)
      /\ p_fail' = PolicyAfterVerdict(punished, p_fail)
      /\ chk' = [t |-> clock, punished |-> punished,
                 result |-> IF panics THEN "panic" ELSE result,
                 consulted |-> ~panics /\ ~refused,
                 inner |-> IF panics \/ refused THEN "none" ELSE innerAns,
                 resets |-> IF PolicyAfterVerdict(punished, 1) = 0
                            THEN 1 ELSE 0,
                 due |-> last_trip >= 0 /\ clock >= last_trip + trip_for,
                 was_tripped |-> tripped]
      /\ ready' = (~panics /\ result \in {"ReadyOk", "ReadyErr"})
      /\ waiter' = IF ~panics /\ result = "Pending" THEN "suspended"
                   ELSE "none"
      /\ last_trip' = IF punished THEN clock ELSE last_trip
      /\ since_trip_s' = IF punished THEN 0 ELSE since_trip_s
      /\ since_trip_f' = IF punished THEN 0 ELSE since_trip_f

PollReady(verdict, innerAns, coop) ==
  /\ panicked = "no"
  /\ verdict \in IsPunishedOutcomes
  /\ IF verdict = "panic"
     THEN /\ panicked' = "todo"
          /\ UNCHANGED <<policy_kind, trip_for, clock,
                         tripped, tripped_until, req, raw, out, p_succ,
                         p_fail, rec_s, rec_f, chk, ready, waiter,
                         last_trip, since_trip_s, since_trip_f>>
     ELSE PollReadyAfterVerdict(verdict = "true", innerAns, coop)
  /\ UNCHANGED <<mid, erased, timer_elapsed, hvars, pvars, cvars, xvars>>

(***************************************************************************)
(* CircuitBreaker::call                                                    *)
(***************************************************************************)

\* the request a new call() dispatches: the lowest one not yet used
NextReq == IF \E r \in Reqs : req[r] = "idle"
           THEN CHOOSE r \in Reqs : req[r] = "idle" /\
                                    \A q \in Reqs : req[q] = "idle" => r <= q
           ELSE 0

\* debug_assert!(!self.tripped, ...): checked in a build with debug
\* assertions, compiled out in one without
DebugAssertFails == debug_assertions /\ tripped

\* call() is there for any caller at any time, whatever poll_ready last
\* returned
Call ==
  /\ panicked = "no"
  /\ NextReq # 0
  /\ ready' = FALSE
  /\ IF DebugAssertFails
     THEN /\ panicked' = "debug_assert"
          /\ UNCHANGED req
     ELSE /\ req' = [req EXCEPT ![NextReq] = "created"]
          /\ UNCHANGED panicked
  /\ UNCHANGED <<policy_kind, trip_for, clock, tripped,
                 tripped_until, raw, out, p_succ, p_fail, rec_s,
                 rec_f, chk, waiter, last_trip,
                 since_trip_s, since_trip_f>>
  /\ UNCHANGED <<mid, erased, timer_elapsed, debug_assertions, again,
                 seen_ok, seen_err, pvars, cvars, xvars>>

(***************************************************************************)
(* ResponseFuture::poll                                                    *)
(***************************************************************************)

Mut_RecordOnPending(polled) ==
  IF polled[1] = "Pending" THEN "failure"
  ELSE IF polled[2][1] = "Ok" THEN "success" ELSE "failure"
Mut_RecordOnSwapped(polled) ==
  IF polled[1] = "Pending" THEN "none"
  ELSE IF polled[2][1] = "Ok" THEN "failure" ELSE "success"
\* which Policy method the match arm calls
RecordOn(polled) ==
  IF polled[1] = "Pending" THEN "none"
  ELSE IF polled[2][1] = "Ok" THEN "success" ELSE "failure"

\* what the match arm returns: Poll::Ready(Ok(res)), Poll::Ready(Err(err))
\* or Poll::Pending
ResponseOutput(polled) ==
  IF polled[1] = "Pending" THEN <<"Pending">>
  ELSE IF polled[2][1] = "Ok" THEN <<"Ready", <<"Ok", polled[2][2]>>>>
  ELSE <<"Ready", <<"Err", polled[2][2]>>>>

\* polls made so far of futures that had completed, over the requests 1..n
RECURSIVE RepollsUpTo(_)
RepollsUpTo(n) == IF n = 0 THEN 0 ELSE again[n] + RepollsUpTo(n - 1)

\* ResponseFuture::poll.  It keeps no record of having completed: polled
\* again after it returned Ready it polls the inner future again, and
\* treats what that answers as it treats any answer.
ResponseFuturePoll(r, polled) ==
  /\ panicked = "no"
  /\ \/ req[r] \in {"created", "pending"}
     \/ req[r] = "done" /\ RepollsUpTo(MaxReq) < MaxRepolls
  /\ again' = IF req[r] = "done" THEN [again EXCEPT ![r] = @ + 1] ELSE again
  /\ seen_ok' = IF polled[1] = "Ready" /\ polled[2][1] = "Ok"
                THEN [seen_ok EXCEPT ![r] = @ + 1] ELSE seen_ok
  /\ seen_err' = IF polled[1] = "Ready" /\ polled[2][1] = "Err"
                 THEN [seen_err EXCEPT ![r] = @ + 1] ELSE seen_err
  /\ LET rec == RecordOn(polled)
         ans == ResponseOutput(polled)
     IN  /\ p_succ' = IF rec = "success" THEN p_succ + 1 ELSE p_succ
         /\ p_fail' = IF rec = "failure" THEN p_fail + 1 ELSE p_fail
         /\ since_trip_s' = IF rec = "success" THEN since_trip_s + 1
                            ELSE since_trip_s
         /\ since_trip_f' = IF rec = "failure" THEN since_trip_f + 1
                            ELSE since_trip_f
         /\ rec_s' = IF rec = "success" THEN [rec_s EXCEPT ![r] = @ + 1]
                     ELSE rec_s
         /\ rec_f' = IF rec = "failure" THEN [rec_f EXCEPT ![r] = @ + 1]
                     ELSE rec_f
         /\ raw' = [raw EXCEPT ![r] = polled]
         /\ out' = [out EXCEPT ![r] = ans]
         /\ req' = [req EXCEPT ![r] = IF req[r] = "done" THEN "done"
                                      ELSE IF ans[1] = "Pending" THEN "pending"
                                      ELSE "done"]
  /\ UNCHANGED <<policy_kind, trip_for, clock, tripped,
                 tripped_until, panicked, chk, ready, waiter,
                 last_trip>>
  /\ UNCHANGED <<mid, erased, timer_elapsed, debug_assertions, 
                 pvars, cvars, xvars>>

\* the response future is dropped before the inner work completed
DropResponse(r) ==
  /\ panicked = "no"
  /\ req[r] \in {"created", "pending"}
  /\ req' = [req EXCEPT ![r] = "dropped"]
  /\ UNCHANGED <<policy_kind, trip_for, clock, tripped,
                 tripped_until, panicked, raw, out, p_succ, p_fail, rec_s, rec_f, chk, ready, waiter, last_trip, since_trip_s,
                 since_trip_f>>
  /\ UNCHANGED <<mid, erased, timer_elapsed, hvars, pvars, cvars, xvars>>

\* the caller suspended by a Pending poll_ready is dropped
DropWaiter ==
  /\ panicked = "no"
  /\ waiter = "suspended"
  /\ waiter' = "abandoned"
  /\ UNCHANGED <<policy_kind, trip_for, clock, tripped,
                 tripped_until, panicked, req, raw, out, p_succ, p_fail,
                 rec_s, rec_f, chk, ready, last_trip, since_trip_s,
                 since_trip_f>>
  /\ UNCHANGED <<mid, erased, timer_elapsed, hvars, pvars, cvars, xvars>>

\* time passes
Tick ==
  /\ panicked = "no"
  /\ clock < MaxTime
  /\ clock' = clock + 1
  /\ UNCHANGED <<policy_kind, trip_for, tripped,
                 tripped_until, panicked, req, raw, out, p_succ, p_fail,
                 rec_s, rec_f, chk, ready, waiter, last_trip, since_trip_s,
                 since_trip_f>>
  /\ UNCHANGED <<mid, erased, timer_elapsed, hvars, pvars, cvars, xvars>>

\* the runtime turns its timer driver: timers up to the current millisecond
\* fire
TimerTurn ==
  /\ panicked = "no"
  /\ timer_elapsed < MsFloor(clock)
  /\ timer_elapsed' = MsFloor(clock)
  /\ UNCHANGED <<policy_kind, trip_for, clock, tripped,
                 tripped_until, panicked, req, raw, out, p_succ, p_fail,
                 rec_s, rec_f, chk, ready, waiter, last_trip,
                 since_trip_s, since_trip_f, mid, erased>>
  /\ UNCHANGED <<hvars, pvars, cvars, xvars>>

NextBreaker ==
  \/ \E v \in {"panic", "true", "false"}, a \in InnerReadiness,
        c \in CoopBudget : PollReady(v, a, c)
  \/ TimerTurn
  \/ Call
  \/ \E r \in Reqs, p \in InnerPolls : ResponseFuturePoll(r, p)
  \/ \E r \in Reqs : DropResponse(r)
  \/ DropWaiter
  \/ Tick

\* the breaker and its response futures at one instant of the clock: what
\* the callers do with the requests, MaxReq of them
NextResponses ==
  \/ \E v \in {"panic", "true", "false"}, a \in InnerReadiness,
        c \in CoopBudget : PollReady(v, a, c)
  \/ Call
  \/ \E r \in Reqs, p \in InnerPolls : ResponseFuturePoll(r, p)
  \/ \E r \in Reqs : DropResponse(r)
  \/ DropWaiter

(***************************************************************************)
(* poll_ready beside response futures polled on other threads: the policy  *)
(* is shared (call() clones it into every ResponseFuture), and poll_ready  *)
(* holds no lock between its is_punished() and its reset().  The threads    *)
(* interleave at one instant of the clock.                                 *)
(***************************************************************************)

\* `if self.config.policy.is_punished()`: the read
PollReadyVerdict(verdict) ==
  /\ panicked = "no"
  /\ mid = <<>>
  /\ verdict \in IsPunishedOutcomes
  /\ IF verdict = "panic"
     THEN /\ panicked' = "todo"
          /\ UNCHANGED mid
     ELSE /\ mid' = <<[punished |-> verdict = "true",
                       recorded |-> p_succ + p_fail]>>
          /\ UNCHANGED panicked
  /\ UNCHANGED <<policy_kind, trip_for, clock, tripped, tripped_until, req,
                 raw, out, p_succ, p_fail, rec_s, rec_f, chk, ready, waiter,
                 last_trip, since_trip_s, since_trip_f,
                 erased, timer_elapsed>>
  /\ UNCHANGED <<hvars, pvars, cvars, xvars>>

\* outcomes on record now that the read did not see
RecordedSince(read) == (p_succ + p_fail) - read.recorded

\* the rest of poll_ready, reset() included
PollReadyRest(innerAns, coop) ==
  /\ panicked = "no"
  /\ mid # <<>>
  /\ PollReadyAfterVerdict(mid[1].punished, innerAns, coop)
  /\ erased' = IF mid[1].punished THEN erased + RecordedSince(mid[1])
               ELSE erased
  /\ mid' = <<>>
  /\ UNCHANGED <<timer_elapsed, hvars, pvars, cvars, xvars>>

\* call() takes &mut self: it cannot run while poll_ready does
CallBetweenChecks == mid = <<>> /\ Call

NextBreakerRace ==
  \/ \E v \in {"panic", "true", "false"} : PollReadyVerdict(v)
  \/ \E a \in InnerReadiness, c \in CoopBudget : PollReadyRest(a, c)
  \/ CallBetweenChecks
  \/ \E r \in Reqs, p \in InnerPolls : ResponseFuturePoll(r, p)

(***************************************************************************)
(* The state after construction.  A specification runs one of the three    *)
(* machines (m); the other two stay as built.                              *)
(***************************************************************************)
InitFor(m) ==
  \* CircuitBreaker::new: not tripped, the Sleep armed by
  \* time::sleep(config.trip_for)
  /\ policy_kind \in IF m \in {"breaker", "race", "responses"}
                     THEN {"SlidingFailureRate", "Other"}
                     ELSE {"Other"}
  /\ trip_for \in IF m \in {"breaker", "race", "responses"} THEN TripFors
                  ELSE {1}
  \* built at any instant of the timer's millisecond
  /\ clock \in IF m \in {"breaker", "race"} THEN 0..(TicksPerMs - 1) ELSE {0}
  /\ timer_elapsed = 0
  /\ tripped = FALSE
  /\ tripped_until = SleepDeadline(clock, trip_for)
  /\ panicked = "no"
  /\ req = [r \in Reqs |-> "idle"]
  /\ raw = [r \in Reqs |-> <<"Pending">>]
  /\ out = [r \in Reqs |-> <<"Pending">>]
  /\ p_succ = 0
  /\ p_fail = 0
  /\ rec_s = [r \in Reqs |-> 0]
  /\ rec_f = [r \in Reqs |-> 0]
  /\ chk = NoCheck
  /\ ready = FALSE
  \* the breaker is built with debug assertions or without
  /\ debug_assertions \in IF m \in {"breaker", "race", "responses"}
                          THEN BOOLEAN
                          ELSE {TRUE}
  /\ waiter = "none"
  /\ again = [r \in Reqs |-> 0]
  /\ seen_ok = [r \in Reqs |-> 0]
  /\ seen_err = [r \in Reqs |-> 0]
  /\ last_trip = -1
  /\ since_trip_s = 0
  /\ since_trip_f = 0
  /\ mid = <<>>
  /\ erased = 0
  \* SlidingFailureRate::new
  /\ inner_cfg \in IF m = "policy" THEN Configs
                   ELSE IF m = "policy_read" THEN ReadConfigs
                   ELSE IF m = "policy_wide" THEN WideConfigs
                   ELSE {DefaultConfig}
  /\ p_now = 0
  /\ gen = [index |-> 0, epoch |-> 0]
  /\ windows = [i \in 0..(NUM_WINDOWS - 1) |-> 0]
  /\ current = 0
  /\ pc = [t \in Threads |-> "idle"]
  /\ loc = [t \in Threads |-> NoLocals]
  /\ n_succ = 0
  /\ n_fail = 0
  /\ advanced = 0
  /\ last_rot = -1
  /\ dup_rot = FALSE
  /\ last_rec = -1
  \* WindowedCounter::new
  /\ wc_window \in IF m = "counter" THEN 0..MaxWindow
                   ELSE IF m = "ratio" THEN {MaxWindow}
                   ELSE {NUM_BUCKETS}
  /\ bucket_ms = BucketMs(wc_window)
  /\ wc_elapsed = 0
  /\ buckets = [i \in 0..(NUM_BUCKETS - 1) |-> 0]
  /\ bucket = 0
  /\ wc_panicked = FALSE
  /\ overflow_checks \in IF m = "counter_wide" THEN BOOLEAN ELSE {TRUE}
  /\ wc_last = NoCounterOp
  /\ age = 0
  /\ asum = 0
  /\ since_add = -1
  /\ adds_done = 0
  \* before a call of SlidingFailureRate::new
  /\ new_args \in IF m = "new" THEN NewArgs ELSE {DefaultArgs}
  /\ new_out = <<>>
  \* nobody is reading the policy
  /\ rd = NoRead
  /\ rd_out = <<>>
  \* the ratio form: WindowedCounter::new for `failures`
  /\ f_buckets = [i \in 0..(NUM_BUCKETS - 1) |-> 0]
  /\ f_bucket = 0
  /\ f_elapsed = 0
  /\ max_rate = <<1, 2>>
  /\ ratio_out = <<>>

SpecBreakerRace == InitFor("race") /\ [][NextBreakerRace]_vars

SpecBreaker == InitFor("breaker") /\ [][NextBreaker]_vars

SpecResponses == InitFor("responses") /\ [][NextResponses]_vars

(***************************************************************************)
(* Properties of the breaker (checked under SpecBreaker).                  *)
(***************************************************************************)

\* C1: a check that observes is_punished() = true at time T trips the
\* breaker with deadline T + trip_for and is refused (Pending); every check
\* made before T + trip_for is refused too, without asking the inner
\* service for its readiness.  Stated of a trip_for above zero: with
\* Duration::ZERO the cooldown is over as it begins (no time is before
\* T + trip_for) and the tripping check itself goes on to the Sleep and the
\* inner service.
C1_TripRefusesUntilDeadline ==
  /\ (chk.punished /\ trip_for > 0) =>
       /\ tripped
       /\ tripped_until = chk.t + trip_for
       /\ chk.result = "Pending"
       /\ ~chk.consulted
  /\ (last_trip >= 0 /\ chk.t < last_trip + trip_for) =>
       /\ chk.result = "Pending"
       /\ ~chk.consulted

\* C2: whenever poll_ready returned Ready the breaker is Closed; so a call()
\* that comes straight after a poll_ready that returned Ready does not run
\* while tripped and does not fail the debug assertion in call().
C2_ReadyMeansClosed ==
  [][ /\ chk'.result \in {"ReadyOk", "ReadyErr"} => ~tripped'
      /\ (ready /\ Call) => (~tripped /\ panicked' # "debug_assert") ]_vars

\* a request was dispatched straight after the check that released the
\* breaker from a trip
C2_Witness ==
  /\ last_trip >= 0
  /\ chk.was_tripped
  /\ chk.result = "ReadyOk"
  /\ ~ready
  /\ panicked = "no"
  /\ \E r \in Reqs : req[r] = "created"

\* C3: with T the time of the latest trip, an admission check made at a time
\* >= T + trip_for closes the breaker and returns the inner service's own
\* readiness, and the policy holds only outcomes recorded since the reset
\* of that trip.  Stated of the checks that do not themselves observe
\* is_punished() = true: one that does is a trip of its own.
C3_CheckAfterCooldownAdmits ==
  /\ (chk.due /\ ~chk.punished) =>
       (~tripped /\ chk.consulted /\ chk.result = chk.inner)
  /\ last_trip >= 0 => (p_succ = since_trip_s /\ p_fail = since_trip_f)

\* C4: a completed response is the inner result, unchanged, and caused
\* exactly one record of the matching kind; a response still pending has
\* caused none.  A request completes once: its future is polled until it
\* returns Ready.  (A future polled again after that, against the contract
\* of Future, passes on and records whatever its inner future then
\* answers: one record of the matching kind for each answer.)
C4_OutcomeForwardedAndRecordedOnce ==
  \A r \in Reqs :
    /\ out[r] = raw[r]
    /\ rec_s[r] = seen_ok[r] /\ rec_f[r] = seen_err[r]
    /\ (req[r] = "done" /\ again[r] = 0) =>
         /\ raw[r][1] = "Ready"
         /\ raw[r][2][1] = "Ok" => (rec_s[r] = 1 /\ rec_f[r] = 0)
         /\ raw[r][2][1] = "Err" => (rec_s[r] = 0 /\ rec_f[r] = 1)
    /\ req[r] \in {"idle", "created", "pending"} =>
         (rec_s[r] = 0 /\ rec_f[r] = 0)

\* one request completed with a success and another with a failure
C4_Witness ==
  \E r, q \in Reqs :
    /\ req[r] = "done" /\ again[r] = 0 /\ raw[r][2][1] = "Ok"
    /\ req[q] = "done" /\ again[q] = 0 /\ raw[q][2][1] = "Err"

\* C5: abandoning a request (dropping its response future before the inner
\* work completed, or dropping the caller suspended on admission) changes
\* nothing in the policy, and an abandoned request has caused no record.
C5_AbandonLeavesPolicy ==
  [][ /\ ( \/ \E r \in Reqs : req[r] # "dropped" /\ req'[r] = "dropped"
           \/ waiter = "suspended" /\ waiter' = "abandoned" )
         => UNCHANGED <<p_succ, p_fail, rec_s, rec_f>>
      /\ \A r \in Reqs :
           req'[r] = "dropped" => (rec_s'[r] = 0 /\ rec_f'[r] = 0)
    ]_vars

\* a response future was dropped before its inner work completed and a
\* suspended caller was dropped, with outcomes of other requests on record
C5_Witness ==
  /\ waiter = "abandoned"
  /\ \E r \in Reqs : req[r] = "dropped" /\ raw[r] = <<"Pending">>
  /\ p_succ + p_fail > 0

\* C6: the breaker never fails on its own: poll_ready returns a refusal or
\* the inner readiness, a response returns the inner outcome, and
\* evaluating the policy never panics.
C6_NeverFailsOnItsOwn ==
  /\ panicked = "no"
  /\ chk.result \in {"none", "Pending", chk.inner}
  /\ \A r \in Reqs : out[r] = raw[r]

(***************************************************************************)
(* SlidingFailureRate's Inner, one step per atomic operation.  Threads     *)
(* call record_failure (one fetch_sub) and record_success (expire, then    *)
(* one fetch_add); expire holds the mutex of current_gen from its first    *)
(* line to its return.                                                     *)
(***************************************************************************)

\* the section of expire that runs with the mutex held
Critical == {"swap", "store", "clear"}

Mut_NoMutex(t) == TRUE
\* self.current_gen.lock(): granted when no other thread holds the guard
MutexFree(t) == \A u \in Threads \ {t} : pc[u] \notin Critical

\* now.saturating_duration_since(gen.epoch)
SaturatingDurationSince(now, e) == IF now >= e THEN now - e ELSE 0

\* `if delta < self.window { return; }`
StillInWindow(delta) == delta < inner_cfg.window

\* (i + 1) % NUM_WINDOWS
NextWindow(i) == (i + 1) % NUM_WINDOWS

RECURSIVE SumUpTo(_, _)
SumUpTo(f, n) == IF n < 0 THEN 0 ELSE f[n] + SumUpTo(f, n - 1)

\* the content of all the window slots
SumWindows == SumUpTo(windows, NUM_WINDOWS - 1)

\* a thread may start another record_* call
MayRecord(t) ==
  /\ pc[t] = "idle"
  /\ n_succ + n_fail + Cardinality({u \in Threads : pc[u] # "idle"}) < MaxRecords

\* Inner::record_failure: self.current.fetch_sub(self.failure_value)
RecordFailure(t) ==
  /\ MayRecord(t)
  /\ current' = WrapInt(current - inner_cfg.failure_value)
  /\ n_fail' = n_fail + 1
  /\ last_rec' = p_now
  /\ UNCHANGED <<inner_cfg, p_now, gen, windows, pc, loc, n_succ, advanced,
                 last_rot, dup_rot>>
  /\ UNCHANGED <<bvars, cvars, xvars>>

\* Inner::record_success enters expire: takes the lock, reads the clock and
\* returns at once when the slot has not run out
ExpireLock(t) ==
  /\ MayRecord(t)
  /\ MutexFree(t)
  /\ LET delta == SaturatingDurationSince(p_now, gen.epoch)
     IN  IF StillInWindow(delta)
         THEN /\ pc' = [pc EXCEPT ![t] = "add"]
              /\ UNCHANGED <<loc, last_rot, dup_rot>>
         ELSE /\ pc' = [pc EXCEPT ![t] = "swap"]
              /\ loc' = [loc EXCEPT ![t] = [now |-> p_now, delta |-> delta,
                                            to_commit |-> 0, i |-> 0]]
              /\ last_rot' = p_now
              /\ dup_rot' = (dup_rot \/ last_rot = p_now)
  /\ UNCHANGED <<inner_cfg, p_now, gen, windows, current, n_succ, n_fail,
                 advanced, last_rec>>
  /\ UNCHANGED <<bvars, cvars, xvars>>

\* let to_commit = self.current.swap(0)
ExpireSwap(t) ==
  /\ pc[t] = "swap"
  /\ loc' = [loc EXCEPT ![t].to_commit = current]
  /\ current' = 0
  /\ pc' = [pc EXCEPT ![t] = "store"]
  /\ UNCHANGED <<inner_cfg, p_now, gen, windows, n_succ, n_fail, advanced,
                 last_rot, dup_rot, last_rec>>
  /\ UNCHANGED <<bvars, cvars, xvars>>

\* self.windows[gen.index].store(to_commit); let mut i = (gen.index + 1) % N
ExpireStore(t) ==
  /\ pc[t] = "store"
  /\ windows' = [windows EXCEPT ![gen.index] = loc[t].to_commit]
  /\ loc' = [loc EXCEPT ![t].i = NextWindow(gen.index), ![t].to_commit = 0]
  /\ pc' = [pc EXCEPT ![t] = "clear"]
  /\ advanced' = IF advanced < NUM_WINDOWS THEN advanced + 1 ELSE advanced
  /\ UNCHANGED <<inner_cfg, p_now, gen, current, n_succ, n_fail, last_rot,
                 dup_rot, last_rec>>
  /\ UNCHANGED <<bvars, cvars, xvars>>

\* one turn of `while delta > self.window`
ExpireClear(t) ==
  /\ pc[t] = "clear"
  /\ loc[t].delta > inner_cfg.window
  /\ windows' = [windows EXCEPT ![loc[t].i] = 0]
  /\ loc' = [loc EXCEPT ![t].delta = @ - inner_cfg.window,
                        ![t].i = NextWindow(@)]
  /\ advanced' = IF advanced < NUM_WINDOWS THEN advanced + 1 ELSE advanced
  /\ UNCHANGED <<inner_cfg, p_now, gen, current, pc, n_succ, n_fail,
                 last_rot, dup_rot, last_rec>>
  /\ UNCHANGED <<bvars, cvars, xvars>>

\* the loop is over: gen.index = i; gen.epoch = now; the guard is dropped
ExpireDone(t) ==
  /\ pc[t] = "clear"
  /\ ~(loc[t].delta > inner_cfg.window)
  /\ gen' = [index |-> loc[t].i, epoch |-> loc[t].now]
  /\ loc' = [loc EXCEPT ![t] = NoLocals]
  /\ pc' = [pc EXCEPT ![t] = "add"]
  /\ UNCHANGED <<inner_cfg, p_now, windows, current, n_succ, n_fail,
                 advanced, last_rot, dup_rot, last_rec>>
  /\ UNCHANGED <<bvars, cvars, xvars>>

\* self.current.fetch_add(self.success_value)
FetchAdd(t) ==
  /\ pc[t] = "add"
  /\ current' = WrapInt(current + inner_cfg.success_value)
  /\ n_succ' = n_succ + 1
  /\ last_rec' = p_now
  /\ pc' = [pc EXCEPT ![t] = "idle"]
  /\ UNCHANGED <<inner_cfg, p_now, gen, windows, loc, n_fail, advanced,
                 last_rot, dup_rot>>
  /\ UNCHANGED <<bvars, cvars, xvars>>

\* time passes
PolicyTick ==
  /\ p_now < MaxPTime
  /\ p_now' = p_now + 1
  /\ UNCHANGED <<inner_cfg, gen, windows, current, pc, loc, n_succ, n_fail,
                 advanced, last_rot, dup_rot, last_rec>>
  /\ UNCHANGED <<bvars, cvars, xvars>>

NextPolicy ==
  \/ \E t \in Threads : RecordFailure(t)
  \/ \E t \in Threads : ExpireLock(t)
  \/ \E t \in Threads : ExpireSwap(t)
  \/ \E t \in Threads : ExpireStore(t)
  \/ \E t \in Threads : ExpireClear(t)
  \/ \E t \in Threads : ExpireDone(t)
  \/ \E t \in Threads : FetchAdd(t)
  \/ PolicyTick

SpecPolicy == InitFor("policy") /\ [][NextPolicy]_vars

\* the policy with weights at the ends of isize
SpecPolicyWide == InitFor("policy_wide") /\ [][NextPolicy]_vars

(***************************************************************************)
(* Reading the policy.  One more caller, which holds a clone of the        *)
(* policy as the breaker does, calls Inner::sum (a load of current, then   *)
(* a load of each window slot, none of them under the mutex),              *)
(* Policy::is_punished and Policy::reset while the threads record.         *)
(***************************************************************************)

\* current plus all the window slots, as they stand
Content == current + SumWindows

\* let current = self.current.load(Ordering::SeqCst)
SumLoadCurrent ==
  /\ rd.pc = "idle"
  /\ rd' = [pc |-> "fold", cur |-> current, acc |-> 0, k |-> 0,
            seen |-> {Content}, start |-> p_now, recs |-> n_succ + n_fail]
  /\ rd_out' = <<>>
  /\ UNCHANGED <<new_args, new_out, f_buckets, f_bucket, f_elapsed, max_rate,
                 ratio_out>>
  /\ UNCHANGED <<bvars, pvars, cvars>>

\* current.saturating_add(windowed_sum).saturating_add(self.allowable)
SumResult(cur, windowed_sum) ==
  SaturateInt(SaturateInt(cur + windowed_sum) + inner_cfg.allowable)

\* one turn of the fold: acc.saturating_add(window.load(Ordering::SeqCst));
\* after the last slot sum returns
SumLoadWindow ==
  /\ rd.pc = "fold"
  /\ LET acc  == SaturateInt(rd.acc + windows[rd.k])
         seen == rd.seen \cup {Content}
     IN  IF rd.k + 1 < NUM_WINDOWS
         THEN /\ rd' = [rd EXCEPT !.acc = acc, !.k = rd.k + 1, !.seen = seen]
              /\ UNCHANGED rd_out
         ELSE /\ rd' = NoRead
              /\ rd_out' = <<[value |-> SumResult(rd.cur, acc), seen |-> seen,
                              start |-> rd.start,
                              quiet |-> rd.recs = n_succ + n_fail,
                              last_rec |-> last_rec]>>
  /\ UNCHANGED <<new_args, new_out, f_buckets, f_bucket, f_elapsed, max_rate,
                 ratio_out>>
  /\ UNCHANGED <<bvars, pvars, cvars>>

\* Policy::is_punished for SlidingFailureRate: todo!("eliza")
IsPunished ==
  /\ rd.pc = "idle"
  /\ rd' = [rd EXCEPT !.pc = "is_punished_todo"]
  /\ UNCHANGED <<new_args, new_out, rd_out, f_buckets, f_bucket, f_elapsed,
                 max_rate, ratio_out>>
  /\ UNCHANGED <<bvars, pvars, cvars>>

\* Policy::reset for SlidingFailureRate: todo!("eliza")
Reset ==
  /\ rd.pc = "idle"
  /\ rd' = [rd EXCEPT !.pc = "reset_todo"]
  /\ UNCHANGED <<new_args, new_out, rd_out, f_buckets, f_bucket, f_elapsed,
                 max_rate, ratio_out>>
  /\ UNCHANGED <<bvars, pvars, cvars>>

NextPolicyRead ==
  \/ RecordFailure(1)
  \/ ExpireLock(1)
  \/ ExpireSwap(1)
  \/ ExpireStore(1)
  \/ ExpireClear(1)
  \/ ExpireDone(1)
  \/ FetchAdd(1)
  \/ SumLoadCurrent
  \/ SumLoadWindow
  \/ IsPunished
  \/ Reset
  \/ PolicyTick

SpecPolicyRead == InitFor("policy_read") /\ [][NextPolicyRead]_vars

(***************************************************************************)
(* The policy over a long time, used by one caller at a time: a call       *)
(* begins when no other is under way and time passes between calls only.   *)
(***************************************************************************)

\* no call on the policy is under way
Quiescent == rd.pc = "idle" /\ \A t \in Threads : pc[t] = "idle"

\* the clock of these runs goes on for a window and two slots
ExpiryHorizon == (NUM_WINDOWS + 2) * inner_cfg.window

ExpiryTick ==
  /\ Quiescent
  /\ p_now < ExpiryHorizon
  /\ p_now' = p_now + 1
  /\ UNCHANGED <<inner_cfg, gen, windows, current, pc, loc, n_succ, n_fail,
                 advanced, last_rot, dup_rot, last_rec>>
  /\ UNCHANGED <<bvars, cvars, xvars>>

NextPolicyExpiry ==
  \/ Quiescent /\ RecordFailure(1)
  \/ Quiescent /\ ExpireLock(1)
  \/ ExpireSwap(1)
  \/ ExpireStore(1)
  \/ ExpireClear(1)
  \/ ExpireDone(1)
  \/ FetchAdd(1)
  \/ Quiescent /\ SumLoadCurrent
  \/ SumLoadWindow
  \/ ExpiryTick

SpecPolicyExpiry == InitFor("policy_read") /\ [][NextPolicyExpiry]_vars

(***************************************************************************)
(* Properties of the shared policy (checked under SpecPolicy).             *)
(***************************************************************************)

\* the weight a rotation holds between its swap and its store
InFlight ==
  LET held == [t \in Threads |-> IF pc[t] = "store" THEN loc[t].to_commit ELSE 0]
  IN  SumUpTo([k \in 0..(MaxThreads - 1) |-> held[k + 1]], MaxThreads - 1)

\* C7: under every interleaving of record_success, record_failure and
\* rotation no recorded weight is lost or counted twice: a boundary is
\* rotated once however many callers observe it, and while the index has
\* not come round to a used slot, current plus the slots (plus the value a
\* rotation is carrying from current to its slot) is
\* success_value * successes - failure_value * failures.
C7_NoCountLostOrDoubled ==
  /\ ~dup_rot
  /\ advanced < NUM_WINDOWS =>
       current + SumWindows + InFlight
         = inner_cfg.success_value * n_succ - inner_cfg.failure_value * n_fail

\* a failure was recorded by another thread between the swap and the store
\* of a rotation that is committing a non-zero slot
C7_Witness ==
  \E t \in Threads :
    /\ pc[t] = "store"
    /\ loc[t].to_commit # 0
    /\ current # 0
    /\ advanced > 0

(***************************************************************************)
(* WindowedCounter                                                         *)
(***************************************************************************)

Min(a, b) == IF a <= b THEN a ELSE b

\* the amounts handed to add()
Amounts == {-1, 2}

\* amounts at the ends of the integer type
WideAmounts == {IntMax, IntMin, 1}

\* self.buckets[lo..hi].fill(0)
Fill(bks, lo, hi) ==
  [i \in 0..(NUM_BUCKETS - 1) |-> IF lo <= i /\ i < hi THEN 0 ELSE bks[i]]

\* `if elapsed_ms < self.bucket_ms { return; }`
StillInBucket(elapsed) == elapsed < bucket_ms

\* (((elapsed_ms / self.bucket_ms) - 1) as usize).min(NUM_BUCKETS)
SkippedCount(elapsed) == Min((elapsed \div bucket_ms) - 1, NUM_BUCKETS)

\* skipped.min(NUM_BUCKETS - self.bucket)
SkippedRight(skipped, b1) == Min(skipped, NUM_BUCKETS - b1)

\* skipped - skipped_right
SkippedLeft(skipped, right) == skipped - right

\* a slice self.buckets[lo..hi] lies inside the buffer
SliceInBounds(lo, hi) == 0 <= lo /\ lo <= hi /\ hi <= NUM_BUCKETS

\* *self.curr_bucket() = 0
ZeroCurrent(bks, b) == [bks EXCEPT ![b] = 0]

\* WindowedCounter::advance: the buckets, the active index and the time
\* since the epoch it leaves (epoch = now), or the panic of the division by
\* a zero bucket_ms and the fields as that panic leaves them
AdvanceOf(bks, b, elapsed) ==
  IF StillInBucket(elapsed)
  THEN [panicked |-> FALSE, buckets |-> bks, bucket |-> b,
        elapsed |-> elapsed]
  ELSE IF bucket_ms = 0
  \* the division panics after self.bucket has moved on
  THEN [panicked |-> TRUE, buckets |-> bks, bucket |-> (b + 1) % NUM_BUCKETS,
        elapsed |-> elapsed]
  ELSE LET b1      == (b + 1) % NUM_BUCKETS
           skipped == SkippedCount(elapsed)
           right   == SkippedRight(skipped, b1)
           left    == SkippedLeft(skipped, right)
           bks2    == IF skipped > 0
                      THEN Fill(Fill(bks, b1, b1 + right), 0, left)
                      ELSE bks
           b2      == IF skipped > 0 THEN (b1 + skipped) % NUM_BUCKETS
                      ELSE b1
       IN  [panicked |-> FALSE, buckets |-> ZeroCurrent(bks2, b2),
            bucket |-> b2, elapsed |-> 0]

\* advance on the counter of the model
Advance == AdvanceOf(buckets, bucket, wc_elapsed)

\* one rotation, as advance does it when a single bucket duration passed:
\* the index moves on by one modulo NUM_BUCKETS, the new active bucket is
\* zeroed
RotateOnce(c) ==
  LET i == (c.bucket + 1) % NUM_BUCKETS
  IN  [buckets |-> [c.buckets EXCEPT ![i] = 0], bucket |-> i]

\* k rotations in a row
RECURSIVE Rotations(_, _)
Rotations(c, k) == IF k = 0 THEN c ELSE Rotations(RotateOnce(c), k - 1)

\* *self.curr_bucket() += amount
BucketAfterAdd(old, amount) == old + amount

\* self.buckets.iter().sum()
SumBuckets(bks) == SumUpTo(bks, NUM_BUCKETS - 1)

\* the `+` of iter().sum() overflows at some bucket: the sum of the buckets
\* up to it is not a value of i64
SumOverflows(bks) == \E k \in 0..(NUM_BUCKETS - 1) : ~InInt(SumUpTo(bks, k))

\* the call observes more than NUM_BUCKETS bucket durations since the
\* epoch: a bucket duration is the window divided by NUM_BUCKETS
Jumped == wc_elapsed > wc_window

\* the call comes less than one bucket duration after the counter's
\* creation or latest clear
Early == NUM_BUCKETS * age < wc_window

\* what a call whose advance panicked on the division did
DivisionPanic == [NoCounterOp EXCEPT !.op = "div_by_zero",
                                     !.jumped = Jumped, !.early = Early]

\* WindowedCounter::add
Add(amount) ==
  /\ ~wc_panicked
  /\ adds_done < MaxAdds
  /\ adds_done' = adds_done + 1
  /\ LET adv == Advance
     IN  IF adv.panicked
         THEN /\ wc_panicked' = TRUE
              /\ bucket' = adv.bucket
              /\ wc_last' = DivisionPanic
              /\ UNCHANGED <<buckets, wc_elapsed, asum, since_add>>
         ELSE IF ~InInt(BucketAfterAdd(adv.buckets[adv.bucket], amount))
                 /\ overflow_checks
         \* `+=` overflows: a panic with overflow checks, after advance has
         \* run; wrap-around without
         THEN /\ wc_panicked' = TRUE
              /\ buckets' = adv.buckets
              /\ bucket' = adv.bucket
              /\ wc_elapsed' = adv.elapsed
              /\ wc_last' = [NoCounterOp EXCEPT !.op = "add_overflow"]
              /\ UNCHANGED <<asum, since_add>>
         ELSE /\ buckets' = [adv.buckets EXCEPT ![adv.bucket] =
                               WrapInt(BucketAfterAdd(@, amount))]
              /\ bucket' = adv.bucket
              /\ wc_elapsed' = adv.elapsed
              /\ asum' = asum + amount
              /\ since_add' = 0
              /\ wc_last' = [op |-> "add", amount |-> amount, result |-> 0,
                             jumped |-> Jumped, early |-> Early,
                             decayed |-> FALSE, from |-> bucket]
              /\ UNCHANGED wc_panicked
  /\ UNCHANGED <<wc_window, bucket_ms, overflow_checks, age>>
  /\ UNCHANGED <<bvars, pvars, xvars>>

\* WindowedCounter::total
Total ==
  /\ ~wc_panicked
  /\ LET adv == Advance
     IN  IF adv.panicked
         THEN /\ wc_panicked' = TRUE
              /\ bucket' = adv.bucket
              /\ wc_last' = DivisionPanic
              /\ UNCHANGED <<buckets, wc_elapsed>>
         ELSE IF SumOverflows(adv.buckets) /\ overflow_checks
         \* the sum overflows: a panic with overflow checks, after advance
         \* has run; wrap-around without
         THEN /\ wc_panicked' = TRUE
              /\ buckets' = adv.buckets
              /\ bucket' = adv.bucket
              /\ wc_elapsed' = adv.elapsed
              /\ wc_last' = [NoCounterOp EXCEPT !.op = "total_overflow"]
         ELSE /\ buckets' = adv.buckets
              /\ bucket' = adv.bucket
              /\ wc_elapsed' = adv.elapsed
              /\ wc_last' =
                   [op |-> "total", amount |-> 0,
                    result |-> WrapInt(SumBuckets(adv.buckets)),
                    jumped |-> Jumped,
                    early |-> Early,
                    decayed |-> since_add >= NUM_BUCKETS * bucket_ms,
                    from |-> bucket]
              /\ UNCHANGED wc_panicked
  /\ UNCHANGED <<wc_window, bucket_ms, overflow_checks, age, asum, since_add, adds_done>>
  /\ UNCHANGED <<bvars, pvars, xvars>>

\* WindowedCounter::clear
Clear ==
  /\ ~wc_panicked
  /\ buckets' = Fill(buckets, 0, NUM_BUCKETS)
  /\ wc_elapsed' = 0
  /\ age' = 0
  /\ asum' = 0
  /\ since_add' = -1
  /\ wc_last' = [NoCounterOp EXCEPT !.op = "clear"]
  /\ UNCHANGED <<wc_window, bucket_ms, bucket, wc_panicked, overflow_checks, adds_done>>
  /\ UNCHANGED <<bvars, pvars, xvars>>

Max(a, b) == IF a >= b THEN a ELSE b

\* past this much time since the epoch advance acts the same, and the
\* window has gone by
ElapsedCap == Max((NUM_BUCKETS + 1) * bucket_ms, wc_window + 1)

\* a bucket duration in whole milliseconds, rounded up: past this much time
\* since creation or clear a call is no longer within the first one
AgeCap == (wc_window + NUM_BUCKETS - 1) \div NUM_BUCKETS

\* one millisecond passes
CounterTick ==
  /\ ~wc_panicked
  /\ wc_elapsed' = Min(wc_elapsed + 1, ElapsedCap)
  /\ since_add' = IF since_add < 0 THEN -1
                  ELSE Min(since_add + 1, NUM_BUCKETS * bucket_ms)
  /\ age' = Min(age + 1, AgeCap)
  /\ wc_last' = NoCounterOp
  /\ UNCHANGED <<wc_window, bucket_ms, buckets, bucket, wc_panicked, overflow_checks,
                 asum, adds_done>>
  /\ UNCHANGED <<bvars, pvars, xvars>>

NextCounter ==
  \/ \E a \in Amounts : Add(a)
  \/ Total
  \/ Clear
  \/ CounterTick

SpecCounter == InitFor("counter") /\ [][NextCounter]_vars

\* the counter fed amounts at the ends of the integer type, in a build with
\* and in a build without overflow checks
NextCounterWide ==
  \/ \E a \in WideAmounts : Add(a)
  \/ Total
  \/ Clear
  \/ CounterTick

SpecCounterWide == InitFor("counter_wide") /\ [][NextCounterWide]_vars

(***************************************************************************)
(* Properties of the counter (checked under SpecCounter).                  *)
(***************************************************************************)

\* C8: the calls made less than one bucket duration (the window divided by
\* NUM_BUCKETS) after the counter's creation or clear return, and a total()
\* among them returns the exact sum of the amounts added since then.
C8_ExactSumWithinOneBucket ==
  wc_last.early =>
    /\ wc_last.op # "div_by_zero"
    /\ wc_last.op = "total" => wc_last.result = asum

\* C9: a total() read a full window (NUM_BUCKETS bucket durations) or more
\* after the latest add returns 0, whatever total() calls were made in
\* between.
C9_FullDecay ==
  (wc_last.op = "total" /\ wc_last.decayed) => wc_last.result = 0

\* C10: a call that observes more than NUM_BUCKETS bucket durations (more
\* than the window) since the epoch returns and leaves every bucket zero
\* (total() returns 0), but for the amount an add() then puts in the
\* active bucket.
C10_JumpClearsAll ==
  wc_last.jumped =>
    /\ wc_last.op # "div_by_zero"
    /\ wc_last.op = "total" =>
         /\ wc_last.result = 0
         /\ \A i \in 0..(NUM_BUCKETS - 1) : buckets[i] = 0
    /\ wc_last.op = "add" =>
         \A i \in 0..(NUM_BUCKETS - 1) :
           buckets[i] = IF i = bucket THEN wc_last.amount ELSE 0

(***************************************************************************)
(* One call of SlidingFailureRate::new.                                    *)
(***************************************************************************)
CallNew ==
  /\ new_out = <<>>
  /\ new_out' = <<New(new_args.window, new_args.allowed_per_sec,
                      new_args.failure_percent)>>
  /\ UNCHANGED <<new_args, rd, rd_out, f_buckets, f_bucket, f_elapsed,
                 max_rate, ratio_out>>
  /\ UNCHANGED <<bvars, pvars, cvars>>

NextNew == CallNew

SpecNew == InitFor("new") /\ [][NextNew]_vars

(***************************************************************************)
(* The ratio form of SlidingFailureRate: two WindowedCounters, `requests`  *)
(* and `failures`, created together over one window, and a max_rate.       *)
(* Counts stay far from the ends of i64 here.                              *)
(***************************************************************************)

\* WindowedCounter::add(amount) on a counter given by its fields
AddTo(bks, b, elapsed, amount) ==
  LET adv == AdvanceOf(bks, b, elapsed)
  IN  IF adv.panicked THEN adv
      ELSE [adv EXCEPT !.buckets =
              [adv.buckets EXCEPT ![adv.bucket] = BucketAfterAdd(@, amount)]]

\* a counter the panic of an earlier call left untouched
NotReached(bks, b, elapsed) ==
  [panicked |-> TRUE, buckets |-> bks, bucket |-> b, elapsed |-> elapsed]

\* a quotient of two counts as a fraction <<numerator, denominator>> with
\* a denominator of 0 or more: <<0, 0>> is NaN, <<1, 0>> and <<-1, 0>> the
\* infinities.  a < b is false when either side is NaN.
NaN == <<0, 0>>
FloatLess(a, b) == a # NaN /\ b # NaN /\ a[1] * b[2] < b[1] * a[2]

\* failures.total() / requests.total() as floating point: NaN for 0 / 0,
\* an infinity for another division by zero
FloatDiv(a, b) ==
  IF b > 0 THEN <<a, b>>
  ELSE IF b < 0 THEN <<-a, -b>>
  ELSE IF a > 0 THEN <<1, 0>>
  ELSE IF a < 0 THEN <<-1, 0>>
  ELSE NaN

\* rate > max_rate
RatioVerdict(failures, requests, rate) ==
  FloatLess(rate, FloatDiv(failures, requests))

\* the fields of requests and failures stay as they are
RatioGhostsUnchanged ==
  UNCHANGED <<wc_window, bucket_ms, overflow_checks, wc_last, age, asum, since_add,
              new_args, new_out, rd, rd_out, max_rate>>

\* record_success: requests.add(1)
RatioRecordSuccess ==
  /\ ~wc_panicked
  /\ adds_done < MaxAdds
  /\ adds_done' = adds_done + 1
  /\ LET r == AddTo(buckets, bucket, wc_elapsed, 1)
     IN  /\ wc_panicked' = r.panicked
         /\ buckets' = r.buckets
         /\ bucket' = r.bucket
         /\ wc_elapsed' = r.elapsed
  /\ ratio_out' = <<>>
  /\ UNCHANGED <<f_buckets, f_bucket, f_elapsed>>
  /\ RatioGhostsUnchanged
  /\ UNCHANGED <<bvars, pvars>>

\* record_failure: requests.add(1); failures.add(1)
RatioRecordFailure ==
  /\ ~wc_panicked
  /\ adds_done < MaxAdds
  /\ adds_done' = adds_done + 1
  /\ LET r == AddTo(buckets, bucket, wc_elapsed, 1)
         f == IF r.panicked THEN NotReached(f_buckets, f_bucket, f_elapsed)
              ELSE AddTo(f_buckets, f_bucket, f_elapsed, 1)
     IN  /\ wc_panicked' = (r.panicked \/ f.panicked)
         /\ buckets' = r.buckets
         /\ bucket' = r.bucket
         /\ wc_elapsed' = r.elapsed
         /\ f_buckets' = f.buckets
         /\ f_bucket' = f.bucket
         /\ f_elapsed' = f.elapsed
  /\ ratio_out' = <<>>
  /\ RatioGhostsUnchanged
  /\ UNCHANGED <<bvars, pvars>>

\* is_punished: reads both totals (each total() advances its counter), then
\* compares failures / requests with max_rate
RatioIsPunished ==
  /\ ~wc_panicked
  /\ LET f == AdvanceOf(f_buckets, f_bucket, f_elapsed)
         r == IF f.panicked THEN NotReached(buckets, bucket, wc_elapsed)
              ELSE AdvanceOf(buckets, bucket, wc_elapsed)
     IN  /\ wc_panicked' = (r.panicked \/ f.panicked)
         /\ buckets' = r.buckets
         /\ bucket' = r.bucket
         /\ wc_elapsed' = r.elapsed
         /\ f_buckets' = f.buckets
         /\ f_bucket' = f.bucket
         /\ f_elapsed' = f.elapsed
         /\ ratio_out' =
              IF r.panicked \/ f.panicked THEN <<>> ELSE
              <<[requests |-> SumBuckets(r.buckets),
                 failures |-> SumBuckets(f.buckets),
                 punished |-> RatioVerdict(SumBuckets(f.buckets),
                                           SumBuckets(r.buckets), max_rate)]>>
  /\ UNCHANGED adds_done
  /\ RatioGhostsUnchanged
  /\ UNCHANGED <<bvars, pvars>>

\* reset: clears both counters
RatioReset ==
  /\ ~wc_panicked
  /\ buckets' = Fill(buckets, 0, NUM_BUCKETS)
  /\ wc_elapsed' = 0
  /\ f_buckets' = Fill(f_buckets, 0, NUM_BUCKETS)
  /\ f_elapsed' = 0
  /\ ratio_out' = <<>>
  /\ UNCHANGED <<bucket, f_bucket, wc_panicked, adds_done>>
  /\ RatioGhostsUnchanged
  /\ UNCHANGED <<bvars, pvars>>

\* one millisecond passes
RatioTick ==
  /\ ~wc_panicked
  /\ wc_elapsed' = Min(wc_elapsed + 1, ElapsedCap)
  /\ f_elapsed' = Min(f_elapsed + 1, ElapsedCap)
  /\ ratio_out' = <<>>
  /\ UNCHANGED <<buckets, bucket, f_buckets, f_bucket, wc_panicked, adds_done>>
  /\ RatioGhostsUnchanged
  /\ UNCHANGED <<bvars, pvars>>

NextRatio ==
  \/ RatioRecordSuccess
  \/ RatioRecordFailure
  \/ RatioIsPunished
  \/ RatioReset
  \/ RatioTick

SpecRatio == InitFor("ratio") /\ [][NextRatio]_vars

\* C11: total() returns the sum of the buckets clamped to the range of i64,
\* whatever amounts add() has put in them; it neither panics on the overflow
\* nor wraps around.
C11_TotalSaturates ==
  /\ wc_last.op # "total_overflow"
  /\ wc_last.op = "total" => wc_last.result = SaturateInt(SumBuckets(buckets))

\* C12: is_punished() returns, and returns true exactly when the baseline
\* allowance plus the weighted sum of the window is below 0; reset() returns
\* (and leaves the baseline as it was).
C12_BudgetVerdictReturns ==
  /\ rd.pc # "is_punished_todo"
  /\ rd.pc # "reset_todo"

\* C13: is_punished() of the ratio form returns true exactly when
\* requests.total() > 0 and failures.total() / requests.total() > max_rate;
\* with requests.total() = 0 it returns false.
C13_RatioVerdict ==
  ratio_out # <<>> =>
    ( ratio_out[1].punished <=>
        /\ ratio_out[1].requests > 0
        /\ ratio_out[1].failures * max_rate[2]
             > max_rate[1] * ratio_out[1].requests )

\* C14: new builds a policy exactly for the documented ranges: a window from
\* 1 s to 60 s inclusive, failure_percent from 0 to 1000 inclusive and
\* allowed_per_sec not greater than i32::MAX; outside them it panics; the
\* policy built holds the window given, unclamped.
C14_NewAcceptsDocumentedRanges ==
  new_out # <<>> =>
    /\ ~new_out[1].panicked <=>
         /\ 1000 <= new_args.window /\ new_args.window <= 60000
         /\ F32ZeroLessEq(new_args.failure_percent)
         /\ F32LessEqInt(new_args.failure_percent, 1000)
         /\ ~BigLess(I32_MAX, new_args.allowed_per_sec)
    /\ ~new_out[1].panicked =>
         new_out[1].window * NUM_WINDOWS = new_args.window * 1000

\* C15: no outcome is recorded between the is_punished() read that decides
\* a trip and the policy.reset() that follows it, and so cleared by that
\* reset without any verdict having counted it.
C15_TripAtomic == erased = 0

\* C19: an admission check that observes is_punished() = true calls
\* policy.reset() once and sets the deadline to now + trip_for, also when
\* the breaker is already tripped, and never to an earlier deadline; a check
\* that observes false calls reset() zero times and leaves the deadline as
\* it was; call() and completing responses change neither the breaker
\* state nor the deadline.
C19_OnlyChecksMoveTheBreaker ==
  [][ /\ (/\ chk'.punished
          /\ \E a \in InnerReadiness, c \in CoopBudget :
                PollReady("true", a, c)) =>
           /\ chk'.resets = 1
           /\ p_succ' = 0 /\ p_fail' = 0
           /\ tripped_until' = clock + trip_for
           /\ tripped_until' >= tripped_until
      /\ ~(/\ chk'.resets = 0
            /\ p_succ' = p_succ /\ p_fail' = p_fail
            /\ tripped_until' = tripped_until) =>
           ~(\E a \in InnerReadiness, c \in CoopBudget :
               PollReady("false", a, c))
      /\ (tripped' # tripped \/ tripped_until' # tripped_until) =>
           ~(Call \/ \E r \in Reqs, p \in InnerPolls :
                       ResponseFuturePoll(r, p)) ]_vars

\* C20: an advance that observes an elapsed time e of a bucket duration or
\* more (a bucket duration is the window divided by NUM_BUCKETS) returns
\* and leaves the bucket contents, and so the total, that
\* floor(e / bucket duration) single rotations leave, from every index and
\* for every e; its two fills stay inside the buffer.
C20_AdvanceIsRotations ==
  [][ (wc_window > 0 /\ NUM_BUCKETS * wc_elapsed >= wc_window /\ Total) =>
        /\ ~wc_panicked'
        /\ LET rot     == Rotations([buckets |-> buckets, bucket |-> bucket],
                                    (NUM_BUCKETS * wc_elapsed) \div wc_window)
               b1      == (bucket + 1) % NUM_BUCKETS
               skipped == SkippedCount(wc_elapsed)
               right   == SkippedRight(skipped, b1)
           IN  /\ buckets' = rot.buckets
               /\ wc_last'.result = SumBuckets(rot.buckets)
               /\ SliceInBounds(b1, b1 + right)
               /\ SliceInBounds(0, SkippedLeft(skipped, right)) ]_vars

\* C16: a sum() during which nothing was recorded returns the baseline plus
\* current + all windows as they stood at one instant of the read, however
\* a rotation interleaves with it: the value being retired is not counted
\* twice.
C16_SumNotTorn ==
  (rd_out # <<>> /\ rd_out[1].quiet /\ advanced < NUM_WINDOWS) =>
    \E c \in rd_out[1].seen : rd_out[1].value = inner_cfg.allowable + c

\* C17: an outcome recorded a window and a slot ago, or longer, does not
\* contribute to the budget after the next read or record_success: when the
\* latest record was made at t, a sum() begun at t + (NUM_WINDOWS + 1) slots
\* or later returns the baseline allowance alone, and a record_success made
\* then finds every counter at 0 once it has expired the old slots.
C17_OldCountsExpired ==
  /\ ( /\ rd_out # <<>>
       /\ rd_out[1].quiet
       /\ rd_out[1].last_rec >= 0
       /\ rd_out[1].start >= rd_out[1].last_rec
                               + (NUM_WINDOWS + 1) * inner_cfg.window )
     => rd_out[1].value = inner_cfg.allowable
  /\ \A t \in Threads :
       ( /\ pc[t] = "add"
         /\ last_rec >= 0
         /\ p_now >= last_rec + (NUM_WINDOWS + 1) * inner_cfg.window )
       => Content = 0

\* self.windows.iter().fold(0, |acc, window| acc.saturating_add(window)),
\* over the slots 0..n
RECURSIVE FoldWindows(_, _)
FoldWindows(wins, n) ==
  IF n < 0 THEN 0 ELSE SaturateInt(FoldWindows(wins, n - 1) + wins[n])

\* the budget as Inner::sum computes it from the counters as they stand
BudgetNow(cur, wins) == SumResult(cur, FoldWindows(wins, NUM_WINDOWS - 1))

\* C18: recording a failure never raises the budget sum and recording a
\* success never lowers it, whatever the weights: the counters do not wrap
\* around.
C18_RecordsMonotone ==
  [][ /\ n_fail' = n_fail + 1
           => BudgetNow(current', windows') <= BudgetNow(current, windows)
      /\ n_succ' = n_succ + 1
           => BudgetNow(current', windows') >= BudgetNow(current, windows)
    ]_vars

=============================================================================
